---- MODULE Spec2Model ----
(***************************************************************************)
(* Model of YetAnotherPCInt.cpp: the per-port registration tables          *)
(* (PcIntPort), the four registration operations of PcInt and the pin      *)
(* change interrupt service routine generated by IMPLEMENT_ISR.            *)
(*                                                                         *)
(* Encoding.  An uint8_t used as a bit set (state, rising, falling, PCMSK, *)
(* the port input register, trigger_pins) is the set of the positions of   *)
(* its 1 bits, a subset of 0..7: | is \cup, & is \cap, ~x is Bits \ x,     *)
(* ^ is the symmetric difference and _BV(n) is {n}.  PCICR is the set of   *)
(* the groups whose PCIE bit is set.                                       *)
(***************************************************************************)
EXTENDS Integers, Sequences, FiniteSets, TLC

VARIABLES
    board,          \* the pin table of the build: mapped pin -> [g, b]
    funcs,          \* funcs[g][nr]  : PcIntPort::funcs of port g
    args,           \* args[g][nr]   : PcIntPort::args of port g
    state,          \* state[g]      : PcIntPort::state of port g
    rising,         \* rising[g]     : PcIntPort::rising of port g
    falling,        \* falling[g]    : PcIntPort::falling of port g
    pcmsk,          \* pcmsk[g]      : the PCMSKg register
    pcicr,          \* the PCICR register
    pcifr,          \* the PCIFR register (pending pin change interrupts)
    pin_register,   \* pin_register[g] : PCINT_INPUT_PORTg, the live levels
    sregI,          \* the global interrupt enable flag of SREG
    fg,             \* the foreground call in progress (statement level)
    isr,            \* the interrupt service routine in progress
    calls,          \* the callbacks the running ISR has invoked, in order
    h               \* history of one observed pin (not program state)

vars == <<board, funcs, args, state, rising, falling, pcmsk, pcicr, pcifr,
          pin_register, sregI, fg, isr, calls, h>>

\* The program's own state: what a registration operation may touch.
progVars == <<funcs, args, state, rising, falling, pcmsk, pcicr>>

-----------------------------------------------------------------------------
\* Bounds of the model.

\* Number of pins the board maps to a pin change interrupt.
NumPins == 2

\* The transitions of the observed pin are counted up to this number.
MaxTrans == 4

-----------------------------------------------------------------------------
\* Values.

Null == "nullptr"

RISING == "RISING"

FALLING == "FALLING"

CHANGE == "CHANGE"

Modes == {RISING, FALLING, CHANGE}

\* The bit positions of a port.
Bits == 0..7

\* The ports with a PcIntPort instance (PCINT_INPUT_PORT0 and
\* PCINT_INPUT_PORT1 defined).
Groups == {0, 1}

\* A group number the pin table can name but that has no instance.
AbsentGroup == CHOOSE g \in 0..3 : g \notin Groups

\* The (func, arg) pairs the application passes to attachInterrupt: two
\* callbacks, each with its own user argument, and the empty callback.
AttachInputs == {<<"f1", "a1">>, <<"f2", "a2">>, <<Null, "a1">>}

\* Pins: 0..NumPins-1 are mapped by the board; NoPcIntPin has no pin change
\* interrupt at all (digitalPinToPCICR is null); AbsentPortPin belongs to
\* a group without PcIntPort instance (get_port is null).
MappedPins == 0..(NumPins - 1)

NoPcIntPin == NumPins

AbsentPortPin == NumPins + 1

Pins == MappedPins \cup {NoPcIntPin, AbsentPortPin}

\* The (group, bit) positions a board may wire, in the order of the pins.
BoardSlots == << [g |-> 0, b |-> 0], [g |-> 0, b |-> 1], [g |-> 1, b |-> 0] >>

\* The boards: pin 0 is PCINT0 of port 0, the others follow in increasing
\* order of position.
Boards ==
    { [p \in MappedPins |-> BoardSlots[ix[p]]] :
        ix \in { f \in [MappedPins -> 1..Len(BoardSlots)] :
                    /\ f[0] = 1
                    /\ \A p, q \in MappedPins : p < q => f[p] < f[q] } }

-----------------------------------------------------------------------------
\* The pin table (PinChangeInterruptBoards.h and the Arduino core macros).

\* digitalPinToPCICR(pin) and digitalPinToPCMSK(pin) are non-null.
HasPCICR(pin) == pin \in MappedPins \/ pin = AbsentPortPin

\* digitalPinToPCICRbit(pin)
PinGroup(pin) == IF pin \in MappedPins THEN board[pin].g ELSE AbsentGroup

\* digitalPinToPCMSKbit(pin)
PinBit(pin) == IF pin \in MappedPins THEN board[pin].b ELSE 0

\* get_port(port) is non-null.
HasPort(g) == g \in Groups

-----------------------------------------------------------------------------
\* Bit operations.

BV(nr) == {nr}

Xor(x, y) == (x \ y) \cup (y \ x)

Not(x) == Bits \ x

\* Faulty variants of TriggerPins: the falling term is missing; the
\* direction of the change is not looked at.
TriggerPinsRisingOnly(st, ris, fal, new_state) ==
    Xor(st, new_state) \cap (ris \cap new_state)

TriggerPinsAnyEdge(st, ris, fal, new_state) ==
    Xor(st, new_state) \cap (ris \cup fal)

\* (port.state ^ new_state) & ((port.rising & new_state) | (port.falling & ~new_state))
TriggerPins(st, ris, fal, new_state) ==
    Xor(st, new_state) \cap ((ris \cap new_state) \cup (fal \cap Not(new_state)))

\* Faulty variant of AttachRising: mode RISING is not tested.
AttachRisingChangeOnly(ris, mode, portBitMask) ==
    IF mode = CHANGE THEN ris \cup portBitMask
                     ELSE ris \cap Not(portBitMask)

\* port->rising = (mode == RISING || mode == CHANGE) ? (rising | mask) : (rising & ~mask)
AttachRising(ris, mode, portBitMask) ==
    IF mode = RISING \/ mode = CHANGE THEN ris \cup portBitMask
                                      ELSE ris \cap Not(portBitMask)

\* Faulty variant of AttachFalling: mode FALLING is not tested.
AttachFallingChangeOnly(fal, mode, portBitMask) ==
    IF mode = CHANGE THEN fal \cup portBitMask
                     ELSE fal \cap Not(portBitMask)

\* Faulty variant of AttachFalling: the bit is never cleared.
AttachFallingKeeps(fal, mode, portBitMask) ==
    IF mode = FALLING \/ mode = CHANGE THEN fal \cup portBitMask ELSE fal

\* port->falling = (mode == FALLING || mode == CHANGE) ? (falling | mask) : (falling & ~mask)
AttachFalling(fal, mode, portBitMask) ==
    IF mode = FALLING \/ mode = CHANGE THEN fal \cup portBitMask
                                       ELSE fal \cap Not(portBitMask)

\* Faulty variant of RefreshState: the other bits of the state are dropped.
RefreshClearsOthers(st, port_value, portBitMask) == port_value \cap portBitMask

\* Faulty variant of RefreshState: the whole port is taken over.
RefreshWholePort(st, port_value, portBitMask) == port_value

\* port->state = (port->state & ~portBitMask) | (get_port_value(portGroup) & portBitMask)
RefreshState(st, port_value, portBitMask) ==
    (st \cap Not(portBitMask)) \cup (port_value \cap portBitMask)

\* Faulty variant of MaskOff: the complement is missing.
MaskOffNotInverted(msk, portBitMask) == msk \cap portBitMask

\* *pcmsk &= ~portBitMask
MaskOff(msk, portBitMask) == msk \cap Not(portBitMask)

\* Faulty variant of GroupOff: the mask is not tested.
GroupOffAlways(cr, msk, g) == cr \ BV(g)

\* if (!*pcmsk) *pcicr &= ~_BV(group)
GroupOff(cr, msk, g) == IF msk = {} THEN cr \ BV(g) ELSE cr

\* Faulty variant of AttachGuard: the callback is not tested.
AttachGuardNoFunc(pin, func) == HasPCICR(pin) /\ HasPort(PinGroup(pin))

\* The guard of attachInterrupt.
AttachGuard(pin, func) ==
    HasPCICR(pin) /\ HasPort(PinGroup(pin)) /\ func # Null

\* The guard of detachInterrupt and of disableInterrupt.
PinGuard(pin) == HasPCICR(pin) /\ HasPort(PinGroup(pin))

\* Faulty variant of EnableGuard: the callback of the slot is not tested.
EnableGuardNoFunc(pin) == HasPCICR(pin) /\ HasPort(PinGroup(pin))

\* The guard of enableInterrupt.
EnableGuard(pin) ==
    /\ HasPCICR(pin)
    /\ HasPort(PinGroup(pin))
    /\ funcs[PinGroup(pin)][PinBit(pin)] # Null

\* Faulty variant of IsrLoop: the level passed is read from the port again.
RECURSIVE IsrLoopReread(_, _, _, _, _)
IsrLoopReread(nr, trigger_pins, f, a, new_state) ==
    IF nr >= 8 THEN << >>
    ELSE (IF nr \in trigger_pins /\ f[nr] # Null
            THEN << [nr |-> nr, func |-> f[nr], arg |-> a[nr],
                     level |-> (nr \in pin_register[isr.g])] >>
            ELSE << >>)
         \o IsrLoopReread(nr + 1, trigger_pins, f, a, new_state)

\* Faulty variant of IsrLoop: the bits are visited from 7 down to nr.
RECURSIVE IsrLoopDescending(_, _, _, _, _)
IsrLoopDescending(nr, trigger_pins, f, a, new_state) ==
    IF nr >= 8 THEN << >>
    ELSE IsrLoopDescending(nr + 1, trigger_pins, f, a, new_state)
         \o (IF nr \in trigger_pins /\ f[nr] # Null
               THEN << [nr |-> nr, func |-> f[nr], arg |-> a[nr],
                        level |-> (nr \in new_state)] >>
               ELSE << >>)

\* The loop of the ISR from bit nr on: the callbacks invoked, in order, each
\* with the arguments it is passed.
RECURSIVE IsrLoop(_, _, _, _, _)
IsrLoop(nr, trigger_pins, f, a, new_state) ==
    IF nr >= 8 THEN << >>
    ELSE (IF nr \in trigger_pins /\ f[nr] # Null
            THEN << [nr |-> nr, func |-> f[nr], arg |-> a[nr],
                     level |-> (nr \in new_state)] >>
            ELSE << >>)
         \o IsrLoop(nr + 1, trigger_pins, f, a, new_state)

-----------------------------------------------------------------------------
\* History of the observed pin h.pin.  It records what happened to that pin
\* and never influences the program.

\* The slot of a mapped pin as the program holds it.
Slot(pin) ==
    LET g == PinGroup(pin)
        b == PinBit(pin)
    IN  [func    |-> funcs[g][b],
         arg     |-> args[g][b],
         rising  |-> b \in rising[g],
         falling |-> b \in falling[g]]

\* h.kind selects the part of the history a behaviour keeps besides the
\* last registration: "reg" nothing more, "trans" the transitions of the
\* pin, "saved" the slot at the last disable, "cb" the level at the last
\* callback, "skip" the last call whose guard failed, "pend" a refresh of
\* another pin of the group while a change of the pin is pending, "prev"
\* the registration that the last attach replaced, "sreg" the interrupt
\* enable flag at the entry of the last call; "off" keeps nothing.
HInit(pin, kind) ==
    [kind      |-> kind,
     pin       |-> pin,     \* the observed pin
     func      |-> Null,    \* callback of the last successful attach, Null after detach
     arg       |-> Null,    \* argument of the last successful attach
     mode      |-> Null,    \* mode of the last successful attach, "detached" after detach
     seen      |-> {},      \* {level at the last ISR entry or attach/enable}
     trans     |-> 0,       \* transitions of the pin since the last ISR entry of its group
     refreshed |-> FALSE,   \* attach/enable ran on the pin after such a transition
     ran       |-> FALSE,   \* the ISR of the group has run since the last attach/detach of the pin
     saved     |-> {},      \* {the slot at the last disable}, {} after attach/detach
     cb        |-> {},      \* {level at the last callback or attach/enable}
     skip      |-> {},      \* {the last call that its guard discarded}
     sreg      |-> {},      \* {the last call: I flag at its entry, has it returned, did its
                            \* guard pass}, {} once the flag was changed by someone else
     prev      |-> {},      \* {the registration the last attach replaced}
     disabled  |-> {},      \* {the interrupt of the group was pending at the disable} while
                            \* the pin is disabled, {} after enable, attach and detach
     other     |-> FALSE]   \* attach/enable ran on another pin of the group while the
                            \* snapshot bit of the pin differed from its level, and the
                            \* pin was left alone since

\* attach or enable succeeded on a pin that is not the observed one.
HOther(pin) ==
    LET g == PinGroup(h.pin)
    IN  IF h.kind = "pend" /\ PinGroup(pin) = g
             /\ (PinBit(h.pin) \in state[g]) # (PinBit(h.pin) \in pin_register[g])
        THEN [h EXCEPT !.other = TRUE]
        ELSE h

HAttach(pin, func, arg, mode, level) ==
    IF pin = h.pin
    THEN [h EXCEPT !.func = func, !.arg = arg, !.mode = mode, !.seen = {level},
                   !.ran = FALSE,
                   !.refreshed = (h.kind = "trans" /\ h.trans > 0),
                   !.saved = {},
                   !.cb = IF h.kind = "cb" THEN {level} ELSE {},
                   !.prev = IF h.kind = "prev" /\ h.mode \in Modes
                            THEN {[func |-> h.func, arg |-> h.arg, mode |-> h.mode]}
                            ELSE {},
                   !.disabled = {},
                   !.other = FALSE]
    ELSE HOther(pin)

HDetach(pin) ==
    IF pin = h.pin
    THEN [h EXCEPT !.func = Null, !.arg = Null, !.mode = "detached", !.saved = {},
                   !.ran = FALSE, !.prev = {}, !.disabled = {}, !.other = FALSE]
    ELSE h

HEnable(pin, level) ==
    IF pin = h.pin
    THEN [h EXCEPT !.seen = {level},
                   !.refreshed = (h.kind = "trans" /\ h.trans > 0),
                   !.cb = IF h.kind = "cb" THEN {level} ELSE {},
                   !.disabled = {},
                   !.other = FALSE]
    ELSE HOther(pin)

HDisable(pin) ==
    IF pin = h.pin /\ h.kind = "saved"
    THEN [h EXCEPT !.saved = {Slot(pin)},
                   !.disabled = {PinGroup(pin) \in pcifr}]
    ELSE h

HSkip(op, pin) ==
    IF h.kind = "skip"
    THEN [h EXCEPT !.skip = {[op |-> op, mapped |-> pin \in MappedPins]}]
    ELSE h

HPinChange(pin) ==
    IF pin = h.pin /\ h.kind = "trans"
    THEN [h EXCEPT !.trans = IF h.trans < MaxTrans THEN h.trans + 1 ELSE MaxTrans]
    ELSE IF pin = h.pin THEN [h EXCEPT !.other = FALSE] ELSE h

HIsrEntry(g, new_state) ==
    IF h.kind = "sreg"
    THEN [h EXCEPT !.sreg = {}]
    ELSE IF PinGroup(h.pin) = g
    THEN [h EXCEPT !.trans = 0, !.refreshed = FALSE,
                   !.ran = (h.kind = "trans"),
                   !.seen = {PinBit(h.pin) \in new_state},
                   !.other = FALSE]
    ELSE h

\* A call is entered with the I flag as it is; it returns at once when its
\* guard fails.
HBegin(passes) ==
    IF h.kind = "sreg"
    THEN [h EXCEPT !.sreg = {[entry |-> sregI, returned |-> ~passes, ok |-> passes]}]
    ELSE h

\* The call in progress returns.
HRestore ==
    [h EXCEPT !.sreg = {[r EXCEPT !.returned = TRUE] : r \in h.sreg}]

HIsrLoop(g, cs) ==
    IF h.kind = "cb" /\ PinGroup(h.pin) = g
          /\ \E i \in 1..Len(cs) : cs[i].nr = PinBit(h.pin)
    THEN [h EXCEPT !.cb = {cs[CHOOSE i \in 1..Len(cs) : cs[i].nr = PinBit(h.pin)].level}]
    ELSE h

-----------------------------------------------------------------------------
\* Initial state: the PcIntPort constructor (all callbacks empty, state,
\* rising and falling 0), the registers after reset, all pins low.

FgIdle == [pc |-> "idle"]

IsrIdle == [pc |-> "idle"]

InitProgram ==
    /\ board \in Boards
    /\ funcs = [g \in Groups |-> [nr \in Bits |-> Null]]
    /\ args = [g \in Groups |-> [nr \in Bits |-> Null]]
    /\ state = [g \in Groups |-> {}]
    /\ rising = [g \in Groups |-> {}]
    /\ falling = [g \in Groups |-> {}]
    /\ pcmsk = [g \in Groups |-> {}]
    /\ pcicr = {}
    /\ pcifr = {}
    /\ pin_register = [g \in Groups |-> {}]
    /\ sregI = TRUE
    /\ fg = FgIdle
    /\ isr = IsrIdle
    /\ calls = << >>

Init ==
    /\ InitProgram
    /\ \E pin \in MappedPins : h = HInit(pin, "reg")

InitTrans ==
    /\ InitProgram
    /\ \E pin \in MappedPins : h = HInit(pin, "trans")

InitSaved ==
    /\ InitProgram
    /\ \E pin \in MappedPins : h = HInit(pin, "saved")

InitSkip ==
    /\ InitProgram
    /\ h = HInit(0, "skip")

\* No pin is observed: the history of registrations stays empty.
InitSteps ==
    /\ InitProgram
    /\ h = HInit(NoPcIntPin, "off")

InitPend ==
    /\ InitProgram
    /\ \E pin \in MappedPins : h = HInit(pin, "pend")

InitPrev ==
    /\ InitProgram
    /\ \E pin \in MappedPins : h = HInit(pin, "prev")

InitSreg ==
    /\ InitProgram
    /\ h = HInit(NoPcIntPin, "sreg")

InitCb ==
    /\ InitProgram
    /\ \E pin \in MappedPins : h = HInit(pin, "cb")

-----------------------------------------------------------------------------
\* The environment: a mapped pin changes its level.  A change of a pin
\* whose PCMSK bit is set raises the pin change interrupt flag of its group.

PinChange(pin) ==
    LET g == PinGroup(pin)
        b == PinBit(pin)
    IN  /\ pin \in MappedPins
        /\ pin_register' = [pin_register EXCEPT ![g] = Xor(@, BV(b))]
        /\ pcifr' = IF b \in pcmsk[g] THEN pcifr \cup BV(g) ELSE pcifr
        /\ h' = HPinChange(pin)
        /\ UNCHANGED <<board, progVars, sregI, fg, isr, calls>>

-----------------------------------------------------------------------------
\* The interrupt service routine of group g (IMPLEMENT_ISR).

\* Faulty variant of IsrEntry: the state of every port is taken over.
IsrEntryStoresAllPorts(g) ==
    LET new_state == pin_register[g]
    IN  /\ isr.pc = "idle"
        /\ sregI
        /\ g \in Groups
        /\ g \in pcicr
        /\ g \in pcifr
        /\ isr' = [pc           |-> "loop",
                   g            |-> g,
                   new_state    |-> new_state,
                   trigger_pins |-> TriggerPins(state[g], rising[g], falling[g], new_state),
                   old_state    |-> state[g],
                   live         |-> new_state,
                   htrans       |-> IF PinGroup(h.pin) = g THEN h.trans ELSE 0,
                   hrefreshed   |-> PinGroup(h.pin) = g /\ h.refreshed,
                   hran         |-> PinGroup(h.pin) = g /\ h.ran,
                   hother       |-> PinGroup(h.pin) = g /\ h.other]
        /\ state' = [og \in Groups |-> pin_register[og]]
        /\ pcifr' = pcifr \ BV(g)
        /\ sregI' = FALSE
        /\ h' = HIsrEntry(g, new_state)
        /\ UNCHANGED <<board, funcs, args, rising, falling, pcmsk, pcicr,
                       pin_register, fg, calls>>

\* Faulty variant of IsrEntry: only the bits that trigger a callback are
\* taken over into port.state.
IsrEntrySnapshotTriggered(g) ==
    LET new_state == pin_register[g]
        trigger_pins == TriggerPins(state[g], rising[g], falling[g], new_state)
    IN  /\ isr.pc = "idle"
        /\ sregI
        /\ g \in Groups
        /\ g \in pcicr
        /\ g \in pcifr
        /\ isr' = [pc           |-> "loop",
                   g            |-> g,
                   new_state    |-> new_state,
                   trigger_pins |-> trigger_pins,
                   old_state    |-> state[g],
                   live         |-> new_state,
                   htrans       |-> IF PinGroup(h.pin) = g THEN h.trans ELSE 0,
                   hrefreshed   |-> PinGroup(h.pin) = g /\ h.refreshed,
                   hran         |-> PinGroup(h.pin) = g /\ h.ran,
                   hother       |-> PinGroup(h.pin) = g /\ h.other]
        /\ state' = [state EXCEPT ![g] = Xor(@, trigger_pins)]
        /\ pcifr' = pcifr \ BV(g)
        /\ sregI' = FALSE
        /\ h' = HIsrEntry(g, new_state)
        /\ UNCHANGED <<board, funcs, args, rising, falling, pcmsk, pcicr,
                       pin_register, fg, calls>>

\* The vector is taken: interrupts enabled globally, the group enabled in
\* PCICR and its flag pending.  The hardware clears the flag and the global
\* interrupt enable; the routine reads the port, computes trigger_pins and
\* stores the new state.
IsrEntry(g) ==
    LET new_state == pin_register[g]
    IN  /\ isr.pc = "idle"
        /\ sregI
        /\ g \in Groups
        /\ g \in pcicr
        /\ g \in pcifr
        /\ isr' = [pc           |-> "loop",
                   g            |-> g,
                   new_state    |-> new_state,
                   trigger_pins |-> TriggerPins(state[g], rising[g], falling[g], new_state),
                   old_state    |-> state[g],
                   live         |-> new_state,
                   htrans       |-> IF PinGroup(h.pin) = g THEN h.trans ELSE 0,
                   hrefreshed   |-> PinGroup(h.pin) = g /\ h.refreshed,
                   hran         |-> PinGroup(h.pin) = g /\ h.ran,
                   hother       |-> PinGroup(h.pin) = g /\ h.other]
        /\ state' = [state EXCEPT ![g] = new_state]
        /\ pcifr' = pcifr \ BV(g)
        /\ sregI' = FALSE
        /\ h' = HIsrEntry(g, new_state)
        /\ UNCHANGED <<board, funcs, args, rising, falling, pcmsk, pcicr,
                       pin_register, fg, calls>>

\* The loop over the eight bits, invoking the callbacks.
IsrDispatch ==
    /\ isr.pc = "loop"
    /\ calls' = IsrLoop(0, isr.trigger_pins, funcs[isr.g], args[isr.g], isr.new_state)
    /\ isr' = [isr EXCEPT !.pc = "ret", !.live = IF h.kind = "reg" THEN pin_register[isr.g] ELSE @]
    /\ h' = HIsrLoop(isr.g, calls')
    /\ UNCHANGED <<board, progVars, pcifr, pin_register, sregI, fg>>

\* Return from interrupt: the global interrupt enable is set again.
IsrReturn ==
    /\ isr.pc = "ret"
    /\ isr' = IsrIdle
    /\ calls' = << >>
    /\ sregI' = TRUE
    /\ UNCHANGED <<board, progVars, pcifr, pin_register, fg, h>>

-----------------------------------------------------------------------------
\* The registration operations, each as one step: the body runs inside
\* WITHOUT_INTERRUPTION, so no ISR runs within it.

Foreground == isr.pc = "idle" /\ fg.pc = "idle"

AttachInterrupt(pin, func, arg, mode) ==
    LET g == PinGroup(pin)
        b == PinBit(pin)
        portBitMask == BV(b)
    IN  /\ Foreground
        /\ IF AttachGuard(pin, func)
           THEN /\ funcs' = [funcs EXCEPT ![g][b] = func]
                /\ args' = [args EXCEPT ![g][b] = arg]
                /\ rising' = [rising EXCEPT ![g] = AttachRising(@, mode, portBitMask)]
                /\ falling' = [falling EXCEPT ![g] = AttachFalling(@, mode, portBitMask)]
                /\ pcmsk' = [pcmsk EXCEPT ![g] = @ \cup portBitMask]
                /\ pcicr' = pcicr \cup BV(g)
                /\ state' = [state EXCEPT ![g] = RefreshState(@, pin_register[g], portBitMask)]
                /\ h' = HAttach(pin, func, arg, mode, b \in pin_register[g])
           ELSE /\ h' = HSkip("attach", pin)
                /\ UNCHANGED progVars
        /\ UNCHANGED <<board, pcifr, pin_register, sregI, fg, isr, calls>>

\* Faulty variant of DetachInterrupt: the callback and the argument stay.
DetachKeepsCallback(pin) ==
    LET g == PinGroup(pin)
        b == PinBit(pin)
        portBitMask == BV(b)
    IN  /\ Foreground
        /\ IF PinGuard(pin)
           THEN /\ rising' = [rising EXCEPT ![g] = @ \cap Not(portBitMask)]
                /\ falling' = [falling EXCEPT ![g] = @ \cap Not(portBitMask)]
                /\ pcmsk' = [pcmsk EXCEPT ![g] = MaskOff(@, portBitMask)]
                /\ pcicr' = GroupOff(pcicr, pcmsk'[g], g)
                /\ h' = HDetach(pin)
                /\ UNCHANGED <<funcs, args, state>>
           ELSE /\ h' = HSkip("detach", pin)
                /\ UNCHANGED progVars
        /\ UNCHANGED <<board, pcifr, pin_register, sregI, fg, isr, calls>>

DetachInterrupt(pin) ==
    LET g == PinGroup(pin)
        b == PinBit(pin)
        portBitMask == BV(b)
    IN  /\ Foreground
        /\ IF PinGuard(pin)
           THEN /\ funcs' = [funcs EXCEPT ![g][b] = Null]
                /\ args' = [args EXCEPT ![g][b] = Null]
                /\ rising' = [rising EXCEPT ![g] = @ \cap Not(portBitMask)]
                /\ falling' = [falling EXCEPT ![g] = @ \cap Not(portBitMask)]
                /\ pcmsk' = [pcmsk EXCEPT ![g] = MaskOff(@, portBitMask)]
                /\ pcicr' = GroupOff(pcicr, pcmsk'[g], g)
                /\ h' = HDetach(pin)
                /\ UNCHANGED state
           ELSE /\ h' = HSkip("detach", pin)
                /\ UNCHANGED progVars
        /\ UNCHANGED <<board, pcifr, pin_register, sregI, fg, isr, calls>>

EnableInterrupt(pin) ==
    LET g == PinGroup(pin)
        b == PinBit(pin)
        portBitMask == BV(b)
    IN  /\ Foreground
        /\ IF EnableGuard(pin)
           THEN /\ pcmsk' = [pcmsk EXCEPT ![g] = @ \cup portBitMask]
                /\ pcicr' = pcicr \cup BV(g)
                /\ state' = [state EXCEPT ![g] = RefreshState(@, pin_register[g], portBitMask)]
                /\ h' = HEnable(pin, b \in pin_register[g])
                /\ UNCHANGED <<funcs, args, rising, falling>>
           ELSE /\ h' = HSkip("enable", pin)
                /\ UNCHANGED progVars
        /\ UNCHANGED <<board, pcifr, pin_register, sregI, fg, isr, calls>>

\* Faulty variant of DisableInterrupt: the mode bits are cleared as in detach.
DisableClearsMode(pin) ==
    LET g == PinGroup(pin)
        b == PinBit(pin)
        portBitMask == BV(b)
    IN  /\ Foreground
        /\ IF PinGuard(pin)
           THEN /\ rising' = [rising EXCEPT ![g] = @ \cap Not(portBitMask)]
                /\ falling' = [falling EXCEPT ![g] = @ \cap Not(portBitMask)]
                /\ pcmsk' = [pcmsk EXCEPT ![g] = MaskOff(@, portBitMask)]
                /\ pcicr' = GroupOff(pcicr, pcmsk'[g], g)
                /\ h' = HDisable(pin)
                /\ UNCHANGED <<funcs, args, state>>
           ELSE /\ h' = HSkip("disable", pin)
                /\ UNCHANGED progVars
        /\ UNCHANGED <<board, pcifr, pin_register, sregI, fg, isr, calls>>

DisableInterrupt(pin) ==
    LET g == PinGroup(pin)
        b == PinBit(pin)
        portBitMask == BV(b)
    IN  /\ Foreground
        /\ IF PinGuard(pin)
           THEN /\ pcmsk' = [pcmsk EXCEPT ![g] = MaskOff(@, portBitMask)]
                /\ pcicr' = GroupOff(pcicr, pcmsk'[g], g)
                /\ h' = HDisable(pin)
                /\ UNCHANGED <<funcs, args, state, rising, falling>>
           ELSE /\ h' = HSkip("disable", pin)
                /\ UNCHANGED progVars
        /\ UNCHANGED <<board, pcifr, pin_register, sregI, fg, isr, calls>>

-----------------------------------------------------------------------------
\* The registration operations statement by statement.  fg holds the
\* position of the foreground call and its local variables; fg.pre and
\* fg.post are the slot before the call and the slot the call asks for.
\* An ISR preempts the foreground wherever interrupts are enabled; the
\* foreground continues when it has returned.

\* The slot of a mapped pin with its PCMSK bit.
SlotM(pin) ==
    [func    |-> funcs[PinGroup(pin)][PinBit(pin)],
     arg     |-> args[PinGroup(pin)][PinBit(pin)],
     rising  |-> PinBit(pin) \in rising[PinGroup(pin)],
     falling |-> PinBit(pin) \in falling[PinGroup(pin)],
     mask    |-> PinBit(pin) \in pcmsk[PinGroup(pin)]]

\* The slot a call asks for.
Asked(op, pin, func, arg, mode) ==
    CASE op = "attach"  -> [func |-> func, arg |-> arg,
                            rising |-> mode \in {RISING, CHANGE},
                            falling |-> mode \in {FALLING, CHANGE},
                            mask |-> TRUE]
      [] op = "detach"  -> [func |-> Null, arg |-> Null, rising |-> FALSE,
                            falling |-> FALSE, mask |-> FALSE]
      [] op = "enable"  -> [SlotM(pin) EXCEPT !.mask = TRUE]
      [] op = "disable" -> [SlotM(pin) EXCEPT !.mask = FALSE]

\* The first statement of the body of each operation.
FirstStmt(op) ==
    CASE op = "attach"  -> "a148"
      [] op = "detach"  -> "d171"
      [] op = "enable"  -> "e195"
      [] op = "disable" -> "x214"

\* The guard of an operation.
Guard(op, pin, func) ==
    CASE op = "attach"  -> AttachGuard(pin, func)
      [] op = "detach"  -> PinGuard(pin)
      [] op = "enable"  -> EnableGuard(pin)
      [] op = "disable" -> PinGuard(pin)

\* Faulty variant of CriticalEnter: noInterrupts() is missing.
CriticalEnterMissing(flag) == flag

\* WITHOUT_INTERRUPTION on entry: noInterrupts() clears the I flag.
CriticalEnter(flag) == FALSE

\* The call: the guard is evaluated; when it fails the call returns, else
\* WITHOUT_INTERRUPTION saves SREG and disables the interrupts.
Begin(op, pin, func, arg, mode) ==
    /\ Foreground
    /\ IF Guard(op, pin, func)
       THEN /\ fg' = [pc   |-> FirstStmt(op),
                      op   |-> op,
                      pin  |-> pin,
                      func |-> func,
                      arg  |-> arg,
                      mode |-> mode,
                      sreg |-> sregI,
                      pre  |-> SlotM(pin),
                      post |-> Asked(op, pin, func, arg, mode)]
            /\ sregI' = CriticalEnter(sregI)
       ELSE UNCHANGED <<fg, sregI>>
    /\ h' = HBegin(Guard(op, pin, func))
    /\ UNCHANGED <<board, progVars, pcifr, pin_register, isr, calls>>

\* One statement of a body: fg is at pc, the statement changes the program
\* as stated by the caller and control moves to next.
Running(pc) == fg.pc = pc /\ isr.pc = "idle"

Goto(next) ==
    /\ fg' = [fg EXCEPT !.pc = next]
    /\ UNCHANGED <<board, pcifr, pin_register, sregI, isr, calls, h>>

FgGroup == PinGroup(fg.pin)

FgBit == PinBit(fg.pin)

\* attachInterrupt, lines 148 to 156.
Attach148 ==
    /\ Running("a148")
    /\ funcs' = [funcs EXCEPT ![FgGroup][FgBit] = fg.func]
    /\ Goto("a149")
    /\ UNCHANGED <<args, state, rising, falling, pcmsk, pcicr>>

Attach149 ==
    /\ Running("a149")
    /\ args' = [args EXCEPT ![FgGroup][FgBit] = fg.arg]
    /\ Goto("a150")
    /\ UNCHANGED <<funcs, state, rising, falling, pcmsk, pcicr>>

Attach150 ==
    /\ Running("a150")
    /\ rising' = [rising EXCEPT ![FgGroup] = AttachRising(@, fg.mode, BV(FgBit))]
    /\ Goto("a151")
    /\ UNCHANGED <<funcs, args, state, falling, pcmsk, pcicr>>

Attach151 ==
    /\ Running("a151")
    /\ falling' = [falling EXCEPT ![FgGroup] = AttachFalling(@, fg.mode, BV(FgBit))]
    /\ Goto("a152")
    /\ UNCHANGED <<funcs, args, state, rising, pcmsk, pcicr>>

Attach152 ==
    /\ Running("a152")
    /\ pcmsk' = [pcmsk EXCEPT ![FgGroup] = @ \cup BV(FgBit)]
    /\ Goto("a153")
    /\ UNCHANGED <<funcs, args, state, rising, falling, pcicr>>

Attach153 ==
    /\ Running("a153")
    /\ pcicr' = pcicr \cup BV(FgGroup)
    /\ Goto("a156")
    /\ UNCHANGED <<funcs, args, state, rising, falling, pcmsk>>

Attach156 ==
    /\ Running("a156")
    /\ state' = [state EXCEPT ![FgGroup] = RefreshState(@, pin_register[FgGroup], BV(FgBit))]
    /\ Goto("restore")
    /\ UNCHANGED <<funcs, args, rising, falling, pcmsk, pcicr>>

\* detachInterrupt, lines 171 to 180.
Detach171 ==
    /\ Running("d171")
    /\ funcs' = [funcs EXCEPT ![FgGroup][FgBit] = Null]
    /\ Goto("d172")
    /\ UNCHANGED <<args, state, rising, falling, pcmsk, pcicr>>

Detach172 ==
    /\ Running("d172")
    /\ args' = [args EXCEPT ![FgGroup][FgBit] = Null]
    /\ Goto("d173")
    /\ UNCHANGED <<funcs, state, rising, falling, pcmsk, pcicr>>

Detach173 ==
    /\ Running("d173")
    /\ rising' = [rising EXCEPT ![FgGroup] = @ \cap Not(BV(FgBit))]
    /\ Goto("d174")
    /\ UNCHANGED <<funcs, args, state, falling, pcmsk, pcicr>>

Detach174 ==
    /\ Running("d174")
    /\ falling' = [falling EXCEPT ![FgGroup] = @ \cap Not(BV(FgBit))]
    /\ Goto("d176")
    /\ UNCHANGED <<funcs, args, state, rising, pcmsk, pcicr>>

Detach176 ==
    /\ Running("d176")
    /\ pcmsk' = [pcmsk EXCEPT ![FgGroup] = MaskOff(@, BV(FgBit))]
    /\ Goto("d178")
    /\ UNCHANGED <<funcs, args, state, rising, falling, pcicr>>

Detach178 ==
    /\ Running("d178")
    /\ pcicr' = GroupOff(pcicr, pcmsk[FgGroup], FgGroup)
    /\ Goto("restore")
    /\ UNCHANGED <<funcs, args, state, rising, falling, pcmsk>>

\* enableInterrupt, lines 195 to 199.
Enable195 ==
    /\ Running("e195")
    /\ pcmsk' = [pcmsk EXCEPT ![FgGroup] = @ \cup BV(FgBit)]
    /\ Goto("e196")
    /\ UNCHANGED <<funcs, args, state, rising, falling, pcicr>>

Enable196 ==
    /\ Running("e196")
    /\ pcicr' = pcicr \cup BV(FgGroup)
    /\ Goto("e199")
    /\ UNCHANGED <<funcs, args, state, rising, falling, pcmsk>>

Enable199 ==
    /\ Running("e199")
    /\ state' = [state EXCEPT ![FgGroup] = RefreshState(@, pin_register[FgGroup], BV(FgBit))]
    /\ Goto("restore")
    /\ UNCHANGED <<funcs, args, rising, falling, pcmsk, pcicr>>

\* disableInterrupt, lines 214 to 218.
Disable214 ==
    /\ Running("x214")
    /\ pcmsk' = [pcmsk EXCEPT ![FgGroup] = MaskOff(@, BV(FgBit))]
    /\ Goto("x216")
    /\ UNCHANGED <<funcs, args, state, rising, falling, pcicr>>

Disable216 ==
    /\ Running("x216")
    /\ pcicr' = GroupOff(pcicr, pcmsk[FgGroup], FgGroup)
    /\ Goto("restore")
    /\ UNCHANGED <<funcs, args, state, rising, falling, pcmsk>>

\* Faulty variant of Restore: the interrupts are enabled, as by interrupts().
RestoreEnables ==
    /\ Running("restore")
    /\ sregI' = TRUE
    /\ fg' = FgIdle
    /\ h' = HRestore
    /\ UNCHANGED <<board, progVars, pcifr, pin_register, isr, calls>>

\* WITHOUT_INTERRUPTION on exit: SREG = sreg, and the call returns.
Restore ==
    /\ Running("restore")
    /\ sregI' = fg.sreg
    /\ fg' = FgIdle
    /\ h' = HRestore
    /\ UNCHANGED <<board, progVars, pcifr, pin_register, isr, calls>>

\* The application opens and closes a critical section of its own around
\* its calls: noInterrupts() and interrupts().
NoInterrupts ==
    /\ Foreground
    /\ sregI
    /\ sregI' = FALSE
    /\ h' = [h EXCEPT !.sreg = {}]
    /\ UNCHANGED <<board, progVars, pcifr, pin_register, fg, isr, calls>>

Interrupts ==
    /\ Foreground
    /\ ~sregI
    /\ sregI' = TRUE
    /\ h' = [h EXCEPT !.sreg = {}]
    /\ UNCHANGED <<board, progVars, pcifr, pin_register, fg, isr, calls>>

-----------------------------------------------------------------------------
Next ==
    \/ \E pin \in Pins, in \in AttachInputs, mode \in Modes :
            AttachInterrupt(pin, in[1], in[2], mode)
    \/ \E pin \in Pins : DetachInterrupt(pin)
    \/ \E pin \in Pins : EnableInterrupt(pin)
    \/ \E pin \in Pins : DisableInterrupt(pin)
    \/ \E pin \in MappedPins : PinChange(pin)
    \/ \E g \in Groups : IsrEntry(g)
    \/ IsrDispatch
    \/ IsrReturn

Spec == Init /\ [][Next]_vars

SpecTrans == InitTrans /\ [][Next]_vars

SpecSaved == InitSaved /\ [][Next]_vars

SpecCb == InitCb /\ [][Next]_vars

SpecSkip == InitSkip /\ [][Next]_vars

SpecPend == InitPend /\ [][Next]_vars

SpecPrev == InitPrev /\ [][Next]_vars

NextSteps ==
    \/ \E pin \in Pins, in \in AttachInputs, mode \in Modes :
            Begin("attach", pin, in[1], in[2], mode)
    \/ \E pin \in Pins, op \in {"detach", "enable", "disable"} :
            Begin(op, pin, Null, Null, Null)
    \/ Attach148 \/ Attach149 \/ Attach150 \/ Attach151
    \/ Attach152 \/ Attach153 \/ Attach156
    \/ Detach171 \/ Detach172 \/ Detach173 \/ Detach174
    \/ Detach176 \/ Detach178
    \/ Enable195 \/ Enable196 \/ Enable199
    \/ Disable214 \/ Disable216
    \/ Restore
    \/ \E pin \in MappedPins : PinChange(pin)
    \/ \E g \in Groups : IsrEntry(g)
    \/ IsrDispatch
    \/ IsrReturn

SpecSteps == InitSteps /\ [][NextSteps]_vars

NextSreg ==
    \/ NextSteps
    \/ NoInterrupts
    \/ Interrupts

SpecSreg == InitSreg /\ [][NextSreg]_vars

-----------------------------------------------------------------------------
\* Properties.  They are stated for the observed pin h.pin, which ranges
\* over all mapped pins of all boards, in the state where the ISR of its
\* group has invoked its callbacks and has not yet returned.

\* The bit of the observed pin.
WB == PinBit(h.pin)

\* The ISR of the group of the observed pin has run its loop.
AtRet == isr.pc = "ret" /\ isr.g = PinGroup(h.pin)

\* The invocations the running ISR made for bit nr.
CallsFor(nr) == {i \in 1..Len(calls) : calls[i].nr = nr}

\* The running ISR found the observed pin gone from low to high, from high
\* to low.
RoseW == WB \notin isr.old_state /\ WB \in isr.new_state

FellW == WB \in isr.old_state /\ WB \notin isr.new_state

\* The running ISR invoked the callback of the observed pin exactly once,
\* with the callback and argument of its last attach and the given level.
OnceW(level) ==
    /\ Cardinality(CallsFor(WB)) = 1
    /\ \A i \in CallsFor(WB) :
          calls[i].func = h.func /\ calls[i].arg = h.arg /\ calls[i].level = level

\* The case of C1: the observed pin made exactly one transition since the
\* previous ISR entry of its group, and it has been attached with mode
\* CHANGE, without another attach or a detach, since before that entry.
SingleTransitionW == AtRet /\ h.mode = CHANGE /\ isr.hran /\ isr.htrans = 1

\* C1 as stated: a pin attached with mode CHANGE that makes a single
\* transition between two consecutive dispatcher runs of its group has its
\* callback invoked exactly once by the later run, with the new level.
C1_Original == SingleTransitionW => OnceW(WB \in isr.new_state)

\* C1 amended: the same, provided no attach or enable ran on the pin
\* between the transition and the later dispatcher run; the level passed
\* is the level of the pin after the transition.
C1_ChangeOnce ==
    (AtRet /\ h.mode = CHANGE /\ isr.htrans = 1 /\ ~isr.hrefreshed)
        => OnceW(WB \in isr.new_state) /\ (RoseW \/ FellW)

C1_Witness ==
    /\ SingleTransitionW
    /\ ~isr.hrefreshed
    /\ OnceW(TRUE)
    /\ RoseW

\* C2: for a pin attached with mode RISING, a low-to-high transition
\* observed by a dispatcher run yields exactly one invocation of its
\* callback with level = true, a high-to-low transition yields none.
C2_Rising ==
    (AtRet /\ h.mode = RISING)
        => /\ RoseW => OnceW(TRUE)
           /\ FellW => CallsFor(WB) = {}

C2_Witness == AtRet /\ h.mode = RISING /\ RoseW /\ OnceW(TRUE)

\* C3: for a pin attached with mode FALLING, a high-to-low transition
\* observed by a dispatcher run yields exactly one invocation of its
\* callback with level = false, a low-to-high transition yields none.
C3_Falling ==
    (AtRet /\ h.mode = FALLING)
        => /\ FellW => OnceW(FALSE)
           /\ RoseW => CallsFor(WB) = {}

C3_Witness == AtRet /\ h.mode = FALLING /\ FellW /\ OnceW(FALSE)
\* The other slots: every position but the one of pin keeps its callback,
\* argument, mode bits and mask bit in the step.
OthersKept(pin) ==
    \A g \in Groups, nr \in Bits :
        (g # PinGroup(pin) \/ nr # PinBit(pin))
            => /\ funcs'[g][nr] = funcs[g][nr]
               /\ args'[g][nr] = args[g][nr]
               /\ (nr \in rising'[g]) = (nr \in rising[g])
               /\ (nr \in falling'[g]) = (nr \in falling[g])
               /\ (nr \in pcmsk'[g]) = (nr \in pcmsk[g])

\* C4: after detach(pin) no dispatcher run invokes the callback of the slot
\* of that pin until a later attach on it, and detach(pin) leaves the
\* callback, argument, mode bits and mask bit of every other slot unchanged.
C4_Detach ==
    /\ [](AtRet /\ h.mode = "detached" => CallsFor(WB) = {})
    /\ [][\A pin \in MappedPins : DetachInterrupt(pin) => OthersKept(pin)]_vars

\* A dispatcher run finds the level of the detached pin changed, invokes
\* nothing for it and invokes the callback of another slot of the group.
C4_Witness ==
    /\ AtRet
    /\ h.mode = "detached"
    /\ (RoseW \/ FellW)
    /\ CallsFor(WB) = {}
    /\ calls # << >>

\* C5: disable(pin) followed by enable(pin) with no attach or detach on
\* that pin in between leaves the callback, argument, rising bit and
\* falling bit of the slot as they were before disable.  (h.saved is the
\* slot at the last disable and is emptied by attach and detach; the slot
\* equals it from disable on, before and after enable.)
C5_DisableEnable == \A sl \in h.saved : Slot(h.pin) = sl

\* enable has run after disable: the mask bit is set again.
C5_Witness ==
    /\ h.saved # {}
    /\ h.func # Null
    /\ WB \in pcmsk[PinGroup(h.pin)]
    /\ isr.pc = "idle"
\* A registration operation is between its first and its last write and
\* the slot it updates is neither the slot before the call nor the slot
\* the call asks for.
Torn == fg.pc # "idle" /\ SlotM(fg.pin) \notin {fg.pre, fg.post}

\* C6: a dispatcher run never reads a torn slot: while an ISR runs, the
\* slot of a registration operation in progress is entirely the one before
\* the update or entirely the one after it, because no ISR can start
\* between the first and the last write of the operation.
C6_NoTornRead ==
    /\ isr.pc # "idle" => ~Torn
    /\ Torn => ~sregI

\* The interrupt of the group is enabled and pending while the slot is
\* torn: the dispatcher is held off until the update is complete.
C6_Witness ==
    /\ Torn
    /\ fg.op = "attach"
    /\ FgGroup \in pcicr
    /\ FgGroup \in pcifr
    /\ fg.sreg

\* The calls C7 is about: attach with an unmapped pin or an empty callback,
\* enable with an unmapped pin or on a slot without callback, detach and
\* disable with an unmapped pin.
DiscardedCall ==
    \/ \E pin \in Pins, in \in AttachInputs, mode \in Modes :
          /\ pin \notin MappedPins \/ in[1] = Null
          /\ AttachInterrupt(pin, in[1], in[2], mode)
    \/ \E pin \in Pins :
          /\ pin \notin MappedPins \/ funcs[PinGroup(pin)][PinBit(pin)] = Null
          /\ EnableInterrupt(pin)
    \/ \E pin \in Pins \ MappedPins :
          DetachInterrupt(pin) \/ DisableInterrupt(pin)

\* C7: each of these calls leaves the slots, mode bits and snapshot of
\* every port and every mask and enable register unchanged.
C7_Discarded ==
    [][UNCHANGED <<progVars, pcifr, pin_register, sregI>> \/ ~DiscardedCall]_vars

\* attach with an empty callback was the last discarded call, on a board
\* whose slots are all occupied: the registrations are still there.
C7_Witness ==
    /\ h.skip = {[op |-> "attach", mapped |-> TRUE]}
    /\ \A pin \in MappedPins : Slot(pin).func # Null /\ Slot(pin).arg # Null

\* C8: every callback invocation of the dispatcher for bit b passes the
\* user argument stored by the last successful attach on bit b and the
\* level of bit b in the port value captured at the entry of the ISR.
C8_Arguments ==
    isr.pc = "ret" =>
        \A i \in 1..Len(calls) :
            /\ calls[i].level = (calls[i].nr \in isr.new_state)
            /\ (isr.g = PinGroup(h.pin) /\ calls[i].nr = WB)
                   => calls[i].arg = h.arg /\ calls[i].func = h.func

\* The pin was attached twice and its level changed between the entry of
\* the ISR and the invocation: the callback gets the captured level and
\* the argument of the second attach.
C8_Witness ==
    /\ AtRet
    /\ CallsFor(WB) # {}
    /\ h.arg = "a2"
    /\ (WB \in isr.live) # (WB \in isr.new_state)
\* The step empties the callback of slot (g, nr); it clears a mode bit of it.
CallbackCleared(g, nr) == funcs[g][nr] # Null /\ funcs'[g][nr] = Null

ModeBitCleared(g, nr) ==
    \/ nr \in rising[g] /\ nr \notin rising'[g]
    \/ nr \in falling[g] /\ nr \notin falling'[g]

\* The step is detach, attach on the pin of slot (g, nr).
DetachOf(g, nr) ==
    \E pin \in MappedPins :
        PinGroup(pin) = g /\ PinBit(pin) = nr /\ DetachInterrupt(pin)

AttachOf(g, nr) ==
    \E pin \in MappedPins, in \in AttachInputs, mode \in Modes :
        /\ PinGroup(pin) = g
        /\ PinBit(pin) = nr
        /\ AttachInterrupt(pin, in[1], in[2], mode)

\* The callback of the slot of the observed pin is empty if and only if
\* there was no successful attach on it since the start or its last detach.
EmptyIffNotAttached == (Slot(h.pin).func = Null) <=> (h.mode \notin Modes)

\* enable and disable leave every callback, argument and mode bit alone.
EnableDisableKeep ==
    \A pin \in Pins :
        (EnableInterrupt(pin) \/ DisableInterrupt(pin))
            => UNCHANGED <<funcs, args, rising, falling>>

\* C9 as stated: a callback is empty iff no pin is attached there; enable
\* and disable never clear a callback or a mode bit, and detach is the
\* only operation that clears a callback or a mode bit.
C9_Original ==
    /\ []EmptyIffNotAttached
    /\ [][EnableDisableKeep]_vars
    /\ [][\A g \in Groups, nr \in Bits :
            (CallbackCleared(g, nr) \/ ModeBitCleared(g, nr)) => DetachOf(g, nr)]_vars

\* C9 amended: a callback is empty iff no pin is attached there; enable and
\* disable never clear a callback or a mode bit; detach is the only
\* operation that clears a callback, and a mode bit is cleared only by
\* detach or by an attach on the same pin (one whose mode leaves the edge
\* out).
C9_SlotLifecycle ==
    /\ []EmptyIffNotAttached
    /\ [][EnableDisableKeep]_vars
    /\ [][\A g \in Groups, nr \in Bits :
            /\ CallbackCleared(g, nr) => DetachOf(g, nr)
            /\ ModeBitCleared(g, nr) => (DetachOf(g, nr) \/ AttachOf(g, nr))]_vars

\* The observed pin was attached and disabled: the callback and the mode
\* are kept while the mask bit is clear.
C9_Witness ==
    /\ h.mode = CHANGE
    /\ Slot(h.pin).func # Null
    /\ Slot(h.pin).rising
    /\ Slot(h.pin).falling
    /\ WB \notin pcmsk[PinGroup(h.pin)]

\* The ISR of the group of the observed pin is between storing the new
\* state and invoking the callbacks.
Dispatching == isr.pc = "loop" /\ isr.g = PinGroup(h.pin)

\* C10 as stated: for an attached position the bit of last_state is the
\* level of the pin as of the last run of the callback of the position or
\* the last successful attach/enable on it, whichever is more recent.
C10_Original ==
    (h.func # Null /\ ~Dispatching) => h.cb = {WB \in state[PinGroup(h.pin)]}

\* C10 amended: for an attached position the bit of last_state is the level
\* of the pin as of the last dispatcher run of its group (whether or not
\* the callback of the position ran) or the last successful attach/enable
\* on it, whichever is more recent.
C10_Snapshot == h.func # Null => h.seen = {WB \in state[PinGroup(h.pin)]}

\* A dispatcher run stored a level of the attached pin that no callback
\* was told.
C10_Witness ==
    /\ h.func # Null
    /\ isr.pc = "idle"
    /\ h.seen # h.cb
    /\ h.seen = {WB \in state[PinGroup(h.pin)]}

\* Bit nr qualifies in the running ISR: it differs between the snapshot and
\* the port value read, the edge is one its mode asks for, and its
\* callback is not empty.
QualifiesW(nr) ==
    /\ (nr \in isr.old_state) # (nr \in isr.new_state)
    /\ \/ nr \in rising[isr.g] /\ nr \in isr.new_state
       \/ nr \in falling[isr.g] /\ nr \notin isr.new_state
    /\ funcs[isr.g][nr] # Null

\* The group of the running ISR has bit 0 in mode CHANGE and bit 1 in mode
\* RISING, both with a callback.
ScenarioModes ==
    /\ {0, 1} \subseteq rising[isr.g]
    /\ 0 \in falling[isr.g]
    /\ 1 \notin falling[isr.g]
    /\ funcs[isr.g][0] # Null
    /\ funcs[isr.g][1] # Null

\* C11: a dispatcher run with snapshot s and port reading n invokes the
\* callback of bit b iff b differs between s and n, its rising bit is set
\* and n has b high or its falling bit is set and n has b low, and the
\* callback of b is not empty; afterwards the snapshot is n in all 8 bits.
\* With bit 0 CHANGE and bit 1 RISING, s = 00000000 and n = 00000011 give
\* two invocations with level true; s = 00000011 and n = 00000001 give none.
C11_Dispatch ==
    isr.pc = "ret" =>
        /\ \A nr \in Bits : (CallsFor(nr) # {}) <=> QualifiesW(nr)
        /\ state[isr.g] = isr.new_state
        /\ (ScenarioModes /\ isr.old_state = {} /\ isr.new_state = {0, 1})
              => /\ Len(calls) = 2
                 /\ \A i \in 1..Len(calls) : calls[i].level = TRUE
        /\ (ScenarioModes /\ isr.old_state = {0, 1} /\ isr.new_state = {0})
              => calls = << >>

\* The scenario: both bits went high, both callbacks ran, the snapshot is
\* the reading.
C11_Witness ==
    /\ isr.pc = "ret"
    /\ ScenarioModes
    /\ isr.old_state = {}
    /\ isr.new_state = {0, 1}
    /\ Len(calls) = 2
    /\ state[isr.g] = {0, 1}

\* The case of C12: the observed pin has been attached with mode RISING
\* since before the previous ISR entry of its group and made exactly three
\* transitions since that entry, the last one to high: high, low, high.
HighLowHighW ==
    /\ AtRet
    /\ h.mode = RISING
    /\ isr.hran
    /\ isr.htrans = 3
    /\ WB \in isr.new_state

\* C12 as stated: a pin attached with mode RISING whose level goes high,
\* low and high again between two consecutive dispatcher runs of its group
\* has its callback invoked exactly once by the second run.
C12_Original == HighLowHighW => OnceW(TRUE)

\* C12 amended: the same, provided no attach or enable ran on the pin
\* between the first of the three transitions and the second run.
C12_MissedEdge ==
    (AtRet /\ h.mode = RISING /\ isr.htrans = 3 /\ WB \in isr.new_state
           /\ ~isr.hrefreshed)
        => OnceW(TRUE) /\ RoseW

C12_Witness ==
    /\ HighLowHighW
    /\ ~isr.hrefreshed
    /\ RoseW
    /\ OnceW(TRUE)

\* The step is a successful attach, a successful enable on pin.
AttachDone(pin) ==
    \E in \in AttachInputs, mode \in Modes :
        in[1] # Null /\ AttachInterrupt(pin, in[1], in[2], mode)

EnableDone(pin) ==
    funcs[PinGroup(pin)][PinBit(pin)] # Null /\ EnableInterrupt(pin)

\* The step sets the bit of pin in last_state to the live level of the pin
\* and leaves every other bit of every last_state as it was.
OnlyOwnBit(pin) ==
    LET g == PinGroup(pin)
        b == PinBit(pin)
    IN  /\ (b \in state'[g]) = (b \in pin_register[g])
        /\ state'[g] \ {b} = state[g] \ {b}
        /\ \A og \in Groups \ {g} : state'[og] = state[og]

\* C13: attach(pin) and enable(pin) change only the bit of that pin in the
\* last_state of its group, setting it to the live level of the pin, and
\* leave the other seven bits as they were, so that a pending transition
\* of another pin of the group (here the observed pin, in mode CHANGE) is
\* still detected by the next dispatcher run.
C13_OwnBitOnly ==
    /\ [][\A pin \in MappedPins :
            (AttachDone(pin) \/ EnableDone(pin)) => OnlyOwnBit(pin)]_vars
    /\ []((AtRet /\ isr.hother /\ h.mode = CHANGE)
            => OnceW(WB \in isr.new_state))

\* attach or enable ran on another pin of the group while a change of the
\* observed pin was pending, and the next dispatcher run reported it.
C13_Witness ==
    /\ AtRet
    /\ isr.hother
    /\ h.mode = CHANGE
    /\ OnceW(WB \in isr.new_state)

\* The interrupt source of each group is enabled iff its mask is not zero.
EnabledIffMasked == \A g \in Groups : (g \in pcicr) <=> (pcmsk[g] # {})

\* attach and enable set the mask bit of the pin and enable the source of
\* its group; detach and disable clear the mask bit and leave the source
\* enabled exactly when the mask of the group is still not zero.
MaskSteps ==
    \A pin \in MappedPins :
        LET g == PinGroup(pin)
            b == PinBit(pin)
        IN  /\ (AttachDone(pin) \/ EnableDone(pin))
                  => b \in pcmsk'[g] /\ g \in pcicr'
            /\ (DetachInterrupt(pin) \/ DisableInterrupt(pin))
                  => /\ b \notin pcmsk'[g]
                     /\ (g \in pcicr') <=> (pcmsk'[g] # {})

\* C14: after any sequence of attach, detach, enable and disable from
\* all-zero registers, the interrupt source of a group is enabled iff at
\* least one bit of the mask of the group is set: attach and enable set
\* the mask bit and enable the source, detach and disable clear the mask
\* bit and disable the source exactly when the mask becomes zero.
C14_GroupEnable == []EnabledIffMasked /\ [][MaskSteps]_vars

\* A pin of a group was disabled while another pin of the group stays
\* enabled: the source of the group is still on.
C14_Witness ==
    \E g \in Groups :
        /\ g \in pcicr
        /\ pcmsk[g] # {}
        /\ \E nr \in Bits \ pcmsk[g] : funcs[g][nr] # Null

\* The slot the last attach on the observed pin asked for.
AttachedSlot ==
    [func    |-> h.func,
     arg     |-> h.arg,
     rising  |-> h.mode \in {RISING, CHANGE},
     falling |-> h.mode \in {FALLING, CHANGE}]

\* The last attach on the observed pin, with mode RISING, replaced an
\* attach with mode CHANGE.
ChangeThenRising ==
    /\ h.mode = RISING
    /\ \E r \in h.prev : r.mode = CHANGE

\* C15: a later attach on an attached pin replaces the callback, the
\* argument and the mode of the slot: the rising bit is set iff the new
\* mode is RISING or CHANGE, the falling bit iff it is FALLING or CHANGE.
\* After attach(CHANGE) and attach(RISING) a high-to-low transition invokes
\* no callback and a low-to-high transition invokes the new callback only,
\* with the new argument.
C15_Reattach ==
    /\ h.mode \in Modes => Slot(h.pin) = AttachedSlot
    /\ (AtRet /\ ChangeThenRising)
          => /\ FellW => CallsFor(WB) = {}
             /\ RoseW => OnceW(TRUE)

\* attach(f1, CHANGE) was replaced by attach(f2, RISING) and the pin rose.
C15_Witness ==
    /\ AtRet
    /\ ChangeThenRising
    /\ h.prev = {[func |-> "f1", arg |-> "a1", mode |-> CHANGE]}
    /\ h.func = "f2"
    /\ RoseW
    /\ OnceW(TRUE)

\* The invocations of the running ISR are in strictly ascending order of
\* bit index, hence at most one for each bit.
Ascending ==
    \A i, j \in 1..Len(calls) : i < j => calls[i].nr < calls[j].nr

\* Each invocation is for a bit of the trigger set computed at the entry
\* and passes the level of the bit in the port value captured there.
FromCapture ==
    \A i \in 1..Len(calls) :
        /\ calls[i].nr \in isr.trigger_pins
        /\ calls[i].level = (calls[i].nr \in isr.new_state)

\* C16: within one dispatcher run the callbacks of the triggered bits are
\* invoked in strictly ascending bit index order, each at most once, in a
\* single pass computed from the one port value captured at entry, and the
\* snapshot is updated before the first callback is invoked.
C16_Order ==
    /\ isr.pc = "loop" => calls = << >> /\ state[isr.g] = isr.new_state
    /\ isr.pc = "ret" => Ascending /\ FromCapture /\ state[isr.g] = isr.new_state

\* Two callbacks ran in one pass while the port was no longer what the ISR
\* had read.
C16_Witness ==
    /\ isr.pc = "ret"
    /\ Len(calls) = 2
    /\ calls[1].nr = 0
    /\ calls[2].nr = 1
    /\ isr.live # isr.new_state

\* The step leaves the slots, the mode bits, the snapshot and the mask of
\* every group but g unchanged.
OtherGroupsKept(g) ==
    \A og \in Groups \ {g} :
        /\ funcs'[og] = funcs[og]
        /\ args'[og] = args[og]
        /\ rising'[og] = rising[og]
        /\ falling'[og] = falling[og]
        /\ state'[og] = state[og]
        /\ pcmsk'[og] = pcmsk[og]

\* The step is a registration operation on pin.
OperationOn(pin) ==
    \/ \E in \in AttachInputs, mode \in Modes :
           AttachInterrupt(pin, in[1], in[2], mode)
    \/ DetachInterrupt(pin)
    \/ EnableInterrupt(pin)
    \/ DisableInterrupt(pin)

\* The steps of the dispatcher and of the operations stay in their group.
GroupSteps ==
    /\ \A g \in Groups : IsrEntry(g) => OtherGroupsKept(g)
    /\ (IsrDispatch \/ IsrReturn) => OtherGroupsKept(isr.g)
    /\ \A pin \in MappedPins : OperationOn(pin) => OtherGroupsKept(PinGroup(pin))

\* The running ISR invoked callbacks of its own group only.
OwnCallbacks ==
    \A i \in 1..Len(calls) :
        /\ calls[i].func = funcs[isr.g][calls[i].nr]
        /\ calls[i].arg = args[isr.g][calls[i].nr]

\* C17: the groups own disjoint state: a dispatcher run for group G and
\* any attach, detach, enable or disable on a pin of group G leave the
\* slots, mode bits, snapshot and mask of every other group unchanged, and
\* a dispatcher run delivers the callbacks of its own group whatever ran
\* for the other groups in between.
C17_Disjoint ==
    /\ [][GroupSteps]_vars
    /\ [](isr.pc = "ret" => OwnCallbacks /\ (\A nr \in Bits : (CallsFor(nr) # {}) <=> QualifiesW(nr)))

\* The ISR of group 1 has run while a change of an attached pin of group 0
\* is pending: the snapshot of group 0 still differs from its port.
C17_Witness ==
    /\ isr.pc = "ret"
    /\ isr.g = 1
    /\ calls # << >>
    /\ 0 \in pcifr
    /\ funcs[0][0] # Null
    /\ state[0] # pin_register[0]

\* C18: between disable(pin) and the next enable(pin) or attach(pin) no
\* dispatcher run invokes the callback of that pin, also not a run
\* triggered by another, still enabled pin of the group while the level of
\* the disabled pin differs from its snapshot bit.
C18_DisabledSilent == (AtRet /\ h.disabled # {}) => CallsFor(WB) = {}

\* The observed pin was disabled while no interrupt of its group was
\* pending; a later change of an enabled pin of the group started the
\* dispatcher, which invoked the callback of the disabled pin.
C18_Witness ==
    /\ AtRet
    /\ h.disabled = {FALSE}
    /\ WB \notin pcmsk[isr.g]
    /\ CallsFor(WB) # {}

\* C19: every registration operation restores the global interrupt enable
\* flag to the value it had on entry: called with interrupts enabled it
\* returns with them enabled, called with interrupts disabled (inside an
\* outer critical section) it returns with them still disabled; until it
\* returns the flag is clear, or as on entry when the guard fails, so that
\* no handler preempts the critical section of the caller.
C19_SregRestored ==
    \A r \in h.sreg :
        /\ r.returned => sregI = r.entry
        /\ ~r.entry => ~sregI
        /\ (r.ok /\ ~r.returned) => ~sregI

\* An operation whose guard passed was called inside an outer critical
\* section and has returned: the interrupts are still disabled.
C19_Witness ==
    /\ h.sreg = {[entry |-> FALSE, returned |-> TRUE, ok |-> TRUE]}
    /\ fg.pc = "idle"
    /\ ~sregI
    /\ pcicr # {}

\* No position of any group has its mask bit, its rising bit or its falling
\* bit set while its callback is empty.
NoEmptyEnabled ==
    \A g \in Groups, nr \in Bits :
        (nr \in pcmsk[g] \/ nr \in rising[g] \/ nr \in falling[g])
            => funcs[g][nr] # Null

\* detachInterrupt is inside its body.
InDetach == fg.pc # "idle" /\ fg.op = "detach"

\* C20 as stated: in every reachable state and for every bit position of
\* every group, if the mask bit, the rising bit or the falling bit is set
\* then the callback of the slot is not empty.
C20_Original == NoEmptyEnabled

\* C20 amended: the same holds in every state but those inside the body
\* of detach, which empties the callback first and clears the bits after
\* it with the interrupts disabled; it holds whenever interrupts are
\* enabled and whenever an ISR runs.
C20_NoEmptyEnabled ==
    /\ ~InDetach => NoEmptyEnabled
    /\ (sregI \/ isr.pc # "idle") => NoEmptyEnabled

\* attach is inside its body, past the callback and the mode bits and
\* before the mask bit of a slot that was empty.
C20_Witness ==
    /\ fg.pc = "a152"
    /\ fg.pre.func = Null
    /\ FgBit \in rising[FgGroup] \cup falling[FgGroup]
    /\ funcs[FgGroup][FgBit] # Null

====
